---- MODULE Spec2Model ----
(***************************************************************************)
(* The telemetry aggregation and distribution engine:                      *)
(*   telemetry-server/data_handler.py   DataHandler                        *)
(*   telemetry-server/gcp_publisher.py  publish_telem                      *)
(*   telemetry-server/telemetry-server.py, test-telemetry/dummy.py         *)
(*                                      ConnectionManager                  *)
(*                                                                         *)
(* The code runs on one asyncio event loop: control moves between tasks    *)
(* only at an await that suspends.  An action of this module is therefore  *)
(* one run of a task from one suspension point to the next.  The only      *)
(* suspension points of DataHandler are the send_json calls of the fan-out *)
(* loop: asyncio.Lock.acquire returns without yielding when the lock is    *)
(* free, and no critical section of DataHandler contains an await.         *)
(*                                                                         *)
(* Time is counted in ticks of one emit_interval.  An event {"type":   *)
(* c, ...fields} is modelled by its category c and the number of its       *)
(* arrival, which stands for its field mapping and makes events distinct.  *)
(***************************************************************************)
EXTENDS Integers, Sequences, FiniteSets, TLC

\* ---- bounds of the model ------------------------------------------------
MaxEvents == 2
MaxTime == 2
HistorySize == 1
MaxHung == 1
MaxMessages == 2

\* ---- program constants --------------------------------------------------
\* time is counted in ticks of half a second: emit_interval = 0.5 is one tick
TicksPerSecond == 2
EmitInterval == 1
DefaultHistorySize == 1000
StartTime == 1

Tasks == {1, 2}
Listeners == {"a", "b"}
Categories == {"position", "battery"}
NoType == "none"
Types == Categories \cup {NoType}
Absent == 0
NoTask == 0
NoListener == "-"
Programs == {"data_handler", "telemetry_server", "dummy"}
CMPrograms == {"telemetry_server", "dummy"}

VARIABLES
  program,        \* which of the repository's programs this behaviour runs
  hung,           \* listeners whose send_json never completes
  clock,          \* time.time()
  maxlen,         \* DataHandler.history.maxlen: the history_size of the constructor
  emit_interval,  \* DataHandler.emit_interval
  snapshot,       \* DataHandler.snapshot: category -> fields (Absent: no key)
  fields,         \* what each field mapping built by an apply holds
  history,        \* DataHandler.history: deque(maxlen = history_size)
  listeners,      \* DataHandler.listeners
  _last_emit,     \* DataHandler._last_emit
  lock,           \* DataHandler._lock: the task holding it, or NoTask
  pc,             \* per caller of process_parsed_message: "idle" or "send"
  snapshot_copy,  \* local of _maybe_broadcast
  fanout,         \* local `listeners` of _maybe_broadcast (the copied list)
  todo,           \* the part of the copied list the for loop has not reached
  ws,             \* the listener whose send_json is in progress
  sent,           \* per caller: what the current broadcast passed to each send_json
  cloud_payload,  \* local of _maybe_publish_cloud: the payload last built
  pub,            \* publish_telem tasks: how many were spawned, how many have not finished
  reply,          \* the value get_snapshot or get_history returned, when the last step was that call
  log,            \* history variable: every event applied so far, in arrival order
  fires,          \* history variable: the times at which a broadcast fired
  carried,        \* history variable: the snapshot of the last broadcast that fired
  failed,         \* history variable: listeners that raised and were not re-registered since
  registered,     \* history variable: handles whose most recent (un)register call was register
  returned,       \* history variable: the number of process_parsed_message calls that returned
  active_connections, \* ConnectionManager.active_connections
  telemetry_data,     \* the global telemetry_data (its version)
  cm              \* the broadcasting loop of ConnectionManager

dhvars == <<snapshot, fields, history, listeners, _last_emit, lock, pc, snapshot_copy,
            fanout, todo, ws, sent, cloud_payload, pub, reply, log, fires, carried,
            returned>>
cmvars == <<active_connections, telemetry_data, cm>>
regvars == <<failed, registered>>
vars == <<program, maxlen, emit_interval, hung, clock, dhvars, cmvars, regvars>>

\* ---- DataHandler: pure parts ---------------------------------------------

\* entry = {"ts": time.time(), **data}
Entry(now, data) == [ts |-> now, type |-> data.type, id |-> data.id]

\* a deque that refuses the new entry when it is full
HistoryAppendKeepOldest(h, e) ==
  IF Len(h) < maxlen THEN Append(h, e) ELSE h

\* deque(maxlen = history_size).append
HistoryAppend(h, e) ==
  IF maxlen = 0 THEN << >>
  ELSE IF Len(h) < maxlen THEN Append(h, e)
  ELSE Append(Tail(h), e)

\* a store that keeps the first fields it saw for a category
SnapshotSetDefault(s, data) ==
  IF data.type # NoType /\ s[data.type] = Absent
  THEN [s EXCEPT ![data.type] = data.id] ELSE s

\* msg_type = data.get("type"); if msg_type: self.snapshot[msg_type] = {fields}
SnapshotSet(s, data) ==
  IF data.type # NoType THEN [s EXCEPT ![data.type] = data.id] ELSE s

\* a broadcaster without the early return
NeverThrottled(now, last) == FALSE

\* The value snapshot[c] names the field mapping that the apply of an event
\* built, by the number of that event; `fields` is what that mapping holds
\* (the number of the event whose fields are in it).
Mappings == 1 .. MaxEvents + 1

\* a store that also rewrites, in place, the mapping the category had
FieldsUpdatedInPlace(f, s, data) ==
  IF data.type = NoType THEN f
  ELSE IF s[data.type] = Absent THEN [f EXCEPT ![data.id] = data.id]
  ELSE [f EXCEPT ![data.id] = data.id, ![s[data.type]] = data.id]

\* {k: v for k, v in data.items() if k != "type"}: a new mapping for each
\* event, assigned to the key; the mapping the key had is not written to
FieldsSet(f, s, data) ==
  IF data.type = NoType THEN f ELSE [f EXCEPT ![data.id] = data.id]

\* now - self._last_emit < self.emit_interval
Throttled(now, last) == now - last < emit_interval

\* a throttle that forgets to record the fire time
LastEmitKept(now, last) == last

\* self._last_emit = now, before the copy and before any send
LastEmitOnFire(now, last) == now

\* a broadcaster that sends again what the last broadcast carried
SnapshotCopyOfLastFire(now, s) == [ts |-> now, snap |-> carried]

\* {"ts": time.time(), **self.snapshot}
SnapshotCopy(now, s) == [ts |-> now, snap |-> s]

\* a registry that holds one handle at a time
AddAlone(ls, w) == {w}

\* self.listeners.add(ws); self.active_connections.add(websocket)
Add(ls, w) == ls \cup {w}

\* a fan-out written inside the `async with self._lock:` block
LockHeldAtSend(t) == t

\* the `async with self._lock:` block of the copies (lines 42-44) has ended
\* when the for loop starts: the lock is free at every send_json
LockAtSend(t) == NoTask

\* self.listeners.discard(ws)
Discard(ls, w) == ls \ {w}

\* a loop whose try/except is around the whole loop: an exception ends it
AfterRaiseAbort(rest) == {}

\* `except Exception:` inside the for loop: the exception is swallowed and the
\* loop goes on with the listeners it has not reached
AfterRaise(rest) == rest

\* a[i:] of a Python list: a negative i counts from the end, and the start
\* is clipped to the list
SliceFrom(a, i) ==
  LET n == Len(a)
      start == IF i < 0 THEN (IF n + i < 0 THEN 0 ELSE n + i)
               ELSE (IF i > n THEN n ELSE i)
  IN SubSeq(a, start + 1, n)

\* list(self.history)[-limit:]
LastLimit(h, limit) == SliceFrom(h, 0 - limit)

\* the limits get_history is called with: none, some, more than the history holds
Limits == 0 .. HistorySize + 1

NoSent == [w \in Listeners |-> << >>]
NoSnapshot == [c \in Categories |-> Absent]
NoCopy == [ts |-> 0, snap |-> NoSnapshot]
NoReply == [copy |-> NoCopy, at |-> 0, set |-> FALSE,
            limit |-> 0, events |-> << >>, listed |-> FALSE]
CMIdle == [pc |-> "idle", message |-> 0, fan |-> {}, todo |-> {}, cur |-> NoListener,
           sent |-> NoSent]

\* if websocket in self.active_connections: self.active_connections.remove(websocket)
CMRemove(conns, w) == IF w \in conns THEN conns \ {w} ELSE conns

\* ---- DataHandler: _maybe_publish_cloud and the return ---------------------

\* `await publish_telem(cloud_payload)`: the task has finished when the call returns
SpawnPublishAwaited(p) == [spawned |-> p.spawned + 1, running |-> p.running]

\* asyncio.create_task(publish_telem(cloud_payload)): one more task, not awaited
SpawnPublish(p) == [spawned |-> p.spawned + 1, running |-> p.running + 1]

\* a publish that sits behind the throttle's early return
CallsPublishWhenFired(throttled) == ~throttled

\* `await self._maybe_publish_cloud()` follows `await self._maybe_broadcast()`
\* whether the broadcast was throttled or fired
CallsPublish(throttled) == TRUE

\* a payload whose position part was read when the broadcast took its copy
\* and whose other parts are read after the deliveries
CloudPayloadInTwoReads(s, before) ==
  [c \in Categories |-> IF c = "position" THEN before[c] ELSE s[c]]

\* {"droneId": ..., **self.snapshot.get("position", {}), ...,
\* **self.snapshot.get("battery", {}), "timestamp": ...}: the parts are read
\* from self.snapshot one after the other with no await between them;
\* `before` is the copy the broadcast took, which the payload does not use
CloudPayload(s, before) == [c \in Categories |-> s[c]]

\* _maybe_publish_cloud, then process_parsed_message returns
PublishAndReturn(t, throttled) ==
  /\ cloud_payload' = IF CallsPublish(throttled)
                      THEN CloudPayload(snapshot', snapshot_copy[t].snap)
                      ELSE cloud_payload
  /\ pub' = IF CallsPublish(throttled) THEN SpawnPublish(pub) ELSE pub
  /\ returned' = returned + 1

\* ---- DataHandler: the fan-out loop ----------------------------------------

\* `for ws in listeners: await ws.send_json(snapshot_copy)` from the point
\* where `rest` is what the loop has not reached: either the loop is over
\* and the call goes on to _maybe_publish_cloud and returns (its locals are
\* gone), or send_json is invoked on the next listener, in the arbitrary
\* order of list(set), and the task suspends in it.
LoopFrom(t, rest, copy, fan, sentNow) ==
  IF rest = {}
  THEN /\ pc' = [pc EXCEPT ![t] = "idle"]
       /\ ws' = [ws EXCEPT ![t] = NoListener]
       /\ todo' = [todo EXCEPT ![t] = {}]
       /\ snapshot_copy' = [snapshot_copy EXCEPT ![t] = NoCopy]
       /\ fanout' = [fanout EXCEPT ![t] = {}]
       /\ sent' = [sent EXCEPT ![t] = NoSent]
       /\ PublishAndReturn(t, FALSE)
  ELSE \E w \in rest :
       /\ pc' = [pc EXCEPT ![t] = "send"]
       /\ ws' = [ws EXCEPT ![t] = w]
       /\ todo' = [todo EXCEPT ![t] = rest \ {w}]
       /\ snapshot_copy' = [snapshot_copy EXCEPT ![t] = copy]
       /\ fanout' = [fanout EXCEPT ![t] = fan]
       /\ sent' = [sent EXCEPT ![t] = [sentNow EXCEPT ![w] = Append(@, copy)]]
       /\ UNCHANGED <<cloud_payload, pub, returned>>

\* ---- DataHandler: operations ----------------------------------------------

\* process_parsed_message up to its first suspension (or its return).  Callers
\* that are not inside a call are interchangeable (they hold no locals), so
\* the event goes to the first of them.  The source delivers `events` events.
ProcessParsedMessageOf(t, ty, events) ==
  /\ program = "data_handler"
  /\ pc[t] = "idle"
  /\ \A u \in Tasks : u < t => pc[u] # "idle"
  /\ lock = NoTask
  /\ Len(log) < events
  /\ LET data == [type |-> ty, id |-> Len(log) + 1]
         entry == Entry(clock, data)
     IN /\ history' = HistoryAppend(history, entry)
        /\ snapshot' = SnapshotSet(snapshot, data)
        /\ fields' = FieldsSet(fields, snapshot, data)
        /\ log' = Append(log, entry)
  /\ reply' = NoReply
  /\ UNCHANGED <<listeners, failed, registered>>
  /\ lock' = IF Throttled(clock, _last_emit) \/ listeners = {} THEN lock ELSE LockAtSend(t)
  /\ IF Throttled(clock, _last_emit)
     THEN /\ UNCHANGED <<_last_emit, snapshot_copy, fanout, fires, carried,
                         pc, ws, todo, sent>>
          /\ PublishAndReturn(t, TRUE)
     ELSE /\ _last_emit' = LastEmitOnFire(clock, _last_emit)
          /\ fires' = Append(fires, clock)
          /\ carried' = SnapshotCopy(clock, snapshot').snap
          /\ LoopFrom(t, listeners, SnapshotCopy(clock, snapshot'), listeners, NoSent)
  /\ UNCHANGED <<program, maxlen, emit_interval, hung, clock, cmvars>>

ProcessParsedMessage(t, ty) == ProcessParsedMessageOf(t, ty, MaxEvents)

\* ws.send_json returned: the loop goes on
SendOk(t) ==
  /\ program = "data_handler"
  /\ pc[t] = "send"
  /\ ws[t] \notin hung
  /\ reply' = NoReply
  /\ UNCHANGED <<listeners, failed, registered>>
  /\ UNCHANGED <<snapshot, fields, history, _last_emit, lock, log, fires, carried>>
  /\ LoopFrom(t, todo[t], snapshot_copy[t], fanout[t], sent[t])
  /\ UNCHANGED <<program, maxlen, emit_interval, hung, clock, cmvars>>

\* ws.send_json raised: discard the listener under the lock, the loop goes on
SendFail(t) ==
  /\ program = "data_handler"
  /\ pc[t] = "send"
  /\ ws[t] \notin hung
  /\ lock = NoTask
  /\ reply' = NoReply
  /\ listeners' = Discard(listeners, ws[t])
  /\ failed' = failed \cup {ws[t]}
  /\ UNCHANGED registered
  /\ UNCHANGED <<snapshot, fields, history, _last_emit, lock, log, fires, carried>>
  /\ LoopFrom(t, AfterRaise(todo[t]), snapshot_copy[t], fanout[t], sent[t])
  /\ UNCHANGED <<program, maxlen, emit_interval, hung, clock, cmvars>>

\* register_listener
RegisterListener(w) ==
  /\ program = "data_handler"
  /\ lock = NoTask
  /\ listeners' = Add(listeners, w)
  /\ failed' = failed \ {w}
  /\ registered' = registered \cup {w}
  /\ reply' = NoReply
  /\ UNCHANGED <<snapshot, fields, history, _last_emit, lock, pc, snapshot_copy, fanout,
                 todo, ws, sent, pub, log, fires, carried, returned>>
  /\ UNCHANGED <<program, maxlen, emit_interval, hung, clock, cmvars>>
  /\ UNCHANGED cloud_payload

\* unregister_listener
UnregisterListener(w) ==
  /\ program = "data_handler"
  /\ lock = NoTask
  /\ listeners' = Discard(listeners, w)
  /\ registered' = registered \ {w}
  /\ reply' = NoReply
  /\ UNCHANGED <<snapshot, fields, history, _last_emit, lock, pc, snapshot_copy, fanout,
                 todo, ws, sent, pub, log, fires, carried, failed, returned>>
  /\ UNCHANGED <<program, maxlen, emit_interval, hung, clock, cmvars>>
  /\ UNCHANGED cloud_payload

\* get_snapshot
GetSnapshot ==
  /\ program = "data_handler"
  /\ lock = NoTask
  /\ reply' = [NoReply EXCEPT !.copy = SnapshotCopy(clock, snapshot),
                              !.at = Len(log), !.set = TRUE]
  /\ UNCHANGED <<snapshot, fields, history, listeners, _last_emit, lock, pc, snapshot_copy,
                 fanout, todo, ws, sent, pub, log, fires, carried, failed, registered, returned>>
  /\ UNCHANGED <<program, maxlen, emit_interval, hung, clock, cmvars>>
  /\ UNCHANGED cloud_payload

\* get_history(limit)
GetHistory(limit) ==
  /\ program = "data_handler"
  /\ lock = NoTask
  /\ reply' = [NoReply EXCEPT !.limit = limit, !.events = LastLimit(history, limit),
                              !.listed = TRUE]
  /\ UNCHANGED <<snapshot, fields, history, listeners, _last_emit, lock, pc, snapshot_copy,
                 fanout, todo, ws, sent, pub, log, fires, carried, failed, registered, returned>>
  /\ UNCHANGED <<program, maxlen, emit_interval, hung, clock, cmvars>>
  /\ UNCHANGED cloud_payload

\* ---- gcp_publisher: publish_telem ------------------------------------------

PublishOutcomes == {"not_initialised", "serialization_error", "sink_error", "published"}

\* a publish_telem task runs to its end: it returns at once when the
\* publisher is not initialised, and every exception of json.dumps, of
\* publisher.publish and of the awaited future is caught and logged.  A
\* sink that never acknowledges is a task that never takes this step.
PublishTelem(outcome) ==
  /\ program = "data_handler"
  /\ pub.running > 0
  /\ pub' = [pub EXCEPT !.running = @ - 1]
  /\ reply' = NoReply
  /\ UNCHANGED <<snapshot, fields, history, listeners, _last_emit, lock, pc, snapshot_copy,
                 fanout, todo, ws, sent, log, fires, carried, failed, registered, returned>>
  /\ UNCHANGED <<program, maxlen, emit_interval, hung, clock, cmvars>>
  /\ UNCHANGED cloud_payload

\* ---- ConnectionManager (telemetry-server.py, dummy.py) ---------------------

\* `for connection in list(self.active_connections)` from the point where
\* `rest` is what the loop has not reached; the message is the dict the
\* caller passed, read when send_json is invoked
CMLoopFrom(rest, msg, fan, sentNow) ==
  IF rest = {}
  THEN cm' = CMIdle
  ELSE \E w \in rest :
       cm' = [pc |-> "send", message |-> msg, fan |-> fan, todo |-> rest \ {w},
              cur |-> w, sent |-> [sentNow EXCEPT ![w] = Append(@, telemetry_data')]]

\* connect: websocket.accept(), then active_connections.add
CMConnect(w) ==
  /\ program \in CMPrograms
  /\ active_connections' = Add(active_connections, w)
  /\ failed' = failed \ {w}
  /\ registered' = registered \cup {w}
  /\ UNCHANGED <<telemetry_data, cm>>
  /\ UNCHANGED <<program, maxlen, emit_interval, hung, clock, dhvars>>

\* disconnect: remove when present
CMDisconnect(w) ==
  /\ program \in CMPrograms
  /\ active_connections' = CMRemove(active_connections, w)
  /\ registered' = registered \ {w}
  /\ UNCHANGED <<telemetry_data, cm, failed>>
  /\ UNCHANGED <<program, maxlen, emit_interval, hung, clock, dhvars>>

\* the reader loop updates telemetry_data and awaits manager.broadcast
CMBroadcast ==
  /\ program \in CMPrograms
  /\ cm.pc = "idle"
  /\ telemetry_data < MaxMessages
  /\ telemetry_data' = telemetry_data + 1
  /\ UNCHANGED <<active_connections, regvars>>
  /\ CMLoopFrom(active_connections, telemetry_data', active_connections, NoSent)
  /\ UNCHANGED <<program, maxlen, emit_interval, hung, clock, dhvars>>

\* connection.send_json returned
CMSendOk ==
  /\ program \in CMPrograms
  /\ cm.pc = "send"
  /\ cm.cur \notin hung
  /\ UNCHANGED <<active_connections, telemetry_data, regvars>>
  /\ CMLoopFrom(cm.todo, cm.message, cm.fan, cm.sent)
  /\ UNCHANGED <<program, maxlen, emit_interval, hung, clock, dhvars>>

\* connection.send_json raised: self.disconnect(connection)
CMSendFail ==
  /\ program \in CMPrograms
  /\ cm.pc = "send"
  /\ cm.cur \notin hung
  /\ active_connections' = CMRemove(active_connections, cm.cur)
  /\ failed' = failed \cup {cm.cur}
  /\ UNCHANGED <<telemetry_data, registered>>
  /\ CMLoopFrom(AfterRaise(cm.todo), cm.message, cm.fan, cm.sent)
  /\ UNCHANGED <<program, maxlen, emit_interval, hung, clock, dhvars>>

\* time passes
Tick ==
  /\ clock < MaxTime
  /\ clock' = clock + 1
  /\ reply' = NoReply
  /\ UNCHANGED <<snapshot, fields, history, listeners, _last_emit, lock, pc, snapshot_copy,
                 fanout, todo, ws, sent, pub, log, fires, carried, failed, registered, returned>>
  /\ UNCHANGED <<program, maxlen, emit_interval, hung, cmvars>>
  /\ UNCHANGED cloud_payload

\* ---- specification --------------------------------------------------------

\* the state after DataHandler(history_size, interval) (and after
\* ConnectionManager()); `unresponsive` is the set of listeners that never
\* answer a send_json in this behaviour
Constructed(history_size, interval, unresponsive) ==
  /\ program \in Programs
  /\ maxlen = history_size
  /\ emit_interval = interval
  /\ hung = unresponsive
  /\ clock = StartTime
  /\ snapshot = NoSnapshot
  /\ fields = [m \in Mappings |-> Absent]
  /\ history = << >>
  /\ listeners = {}
  /\ _last_emit = 0
  /\ lock = NoTask
  /\ pc = [t \in Tasks |-> "idle"]
  /\ snapshot_copy = [t \in Tasks |-> NoCopy]
  /\ fanout = [t \in Tasks |-> {}]
  /\ todo = [t \in Tasks |-> {}]
  /\ ws = [t \in Tasks |-> NoListener]
  /\ sent = [t \in Tasks |-> NoSent]
  /\ cloud_payload = NoSnapshot
  /\ pub = [spawned |-> 0, running |-> 0]
  /\ reply = NoReply
  /\ log = << >>
  /\ fires = << >>
  /\ carried = NoSnapshot
  /\ failed = {}
  /\ registered = {}
  /\ returned = 0
  /\ active_connections = {}
  /\ telemetry_data = 0
  /\ cm = CMIdle

\* DataHandler(history_size = HistorySize): a history small enough to fill
InitWith(unresponsive) == Constructed(HistorySize, EmitInterval, unresponsive)

Init == InitWith({})

\* DataHandler(): `history_size: int = 1000, emit_interval: float = 0.5`
DefaultInit == Constructed(DefaultHistorySize, EmitInterval, {})

Next ==
  \/ \E t \in Tasks, ty \in Types : ProcessParsedMessage(t, ty)
  \/ \E t \in Tasks : SendOk(t)
  \/ \E t \in Tasks : SendFail(t)
  \/ \E w \in Listeners : RegisterListener(w)
  \/ \E w \in Listeners : UnregisterListener(w)
  \/ GetSnapshot
  \/ \E o \in PublishOutcomes : PublishTelem(o)
  \/ \E w \in Listeners : CMConnect(w)
  \/ \E w \in Listeners : CMDisconnect(w)
  \/ CMBroadcast
  \/ CMSendOk
  \/ CMSendFail
  \/ Tick

Spec == Init /\ [][Next]_vars

\* The program with the reader of the history.  get_history changes nothing
\* of the program's state: it is left out of Next, whose behaviours it would
\* only interleave with reads.
ReadNext ==
  \/ Next
  \/ \E limit \in Limits : GetHistory(limit)

ReadSpec == Init /\ [][ReadNext]_vars

\* A longer run of events: one event more than in Spec, in an environment
\* where nobody reads the snapshot and no publish task comes to its end.
BurstNext ==
  \/ \E t \in Tasks, ty \in Types : ProcessParsedMessageOf(t, ty, MaxEvents + 1)
  \/ \E t \in Tasks : SendOk(t)
  \/ \E t \in Tasks : SendFail(t)
  \/ \E w \in Listeners : RegisterListener(w)
  \/ \E w \in Listeners : UnregisterListener(w)
  \/ Tick

BurstSpec == Init /\ [][BurstNext]_vars

\* The program around a DataHandler constructed with no arguments
DefaultSpec == DefaultInit /\ [][Next]_vars

\* The event loop runs every task that can run: a send_json to a responsive
\* listener completes, and time passes.  Nothing obliges the source to
\* deliver another event, a client to connect, or the sink to acknowledge.
FairInit == \E h \in {x \in SUBSET Listeners : Cardinality(x) <= MaxHung} : InitWith(h)

Fairness ==
  /\ WF_vars(Tick)
  /\ \A t \in Tasks : WF_vars(SendOk(t) \/ SendFail(t))
  /\ WF_vars(CMSendOk \/ CMSendFail)

FairSpec == FairInit /\ [][Next]_vars /\ Fairness

\* ---- helpers of the properties ---------------------------------------------

Min(a, b) == IF a < b THEN a ELSE b

\* the last n elements of a sequence, in order
LastN(s, n) == SubSeq(s, Len(s) - Min(n, Len(s)) + 1, Len(s))

\* the fields of the most recently applied event of category c in l
LatestFields(l, c) ==
  LET idx == {i \in 1..Len(l) : l[i].type = c}
  IN IF idx = {} THEN Absent
     ELSE l[CHOOSE i \in idx : \A j \in idx : j <= i].id

Sending == {t \in Tasks : pc[t] = "send"}

\* ---- C1 ---------------------------------------------------------------------

C2_ReplyIsLatest ==
  reply.set => \A c \in Categories : reply.copy.snap[c] = LatestFields(log, c)

C2_FireCopiesLatest ==
  fires' # fires => \A c \in Categories : carried'[c] = LatestFields(log', c)

C2_SnapshotCopyIsLatest == [] C2_ReplyIsLatest /\ [][C2_FireCopiesLatest]_vars

\* get_snapshot returned while a broadcast was suspended in a send, after a
\* category was applied twice
C2_Witness ==
  /\ reply.set
  /\ Sending # {}
  /\ \E i, j \in 1..Len(log) : i < j /\ log[i].type = log[j].type /\ log[i].type # NoType
  /\ \E c \in Categories : reply.copy.snap[c] = Absent

\* ---- C3 ---------------------------------------------------------------------

\* C3: any two broadcasts that fire have fire times at least emit_interval
\* apart, for any number of concurrent callers and any arrival times.
C3_FiresApart ==
  \A i, j \in 1..Len(fires) : i < j => fires[j] - fires[i] >= EmitInterval

\* a second broadcast fired while the first one was still delivering
C3_Witness ==
  /\ Len(fires) >= 2
  /\ Cardinality(Sending) = 2

\* ---- C4 ---------------------------------------------------------------------

\* the store holds fields that no fired broadcast has carried
Stale == carried # snapshot

\* C4: when events were applied while the throttle suppressed broadcasting,
\* then once the window has elapsed a broadcast carrying them fires, also in
\* the executions where no further event arrives.
C4_SuppressedEventsAreBroadcast ==
  (Stale /\ ~Throttled(clock, _last_emit)) ~> ~Stale

\* ---- C5 ---------------------------------------------------------------------

\* send_json is invoked on listener w by caller t in this step
Invoked(t, w) == sent'[t][w] # sent[t][w] /\ sent'[t][w] # << >>

\* C5: a listener whose send_json raised is out of the active set from that
\* failure on, and no send_json is invoked on it again unless it is
\* re-registered.
C5_NoSendAfterFailure ==
  /\ [] (failed \cap listeners = {})
  /\ [][\A t \in Tasks, w \in Listeners : Invoked(t, w) => w \notin failed']_vars

\* ---- C6 ---------------------------------------------------------------------

\* inside a fan-out, every listener of the copied list the loop has passed
\* had send_json invoked exactly once, with the broadcast's own copy
C6_OncePerListener ==
  /\ \A t \in Sending : \A w \in fanout[t] :
       sent[t][w] = IF w \in todo[t] THEN << >> ELSE <<snapshot_copy[t]>>
  /\ cm.pc = "send" => \A w \in cm.fan :
       cm.sent[w] = IF w \in cm.todo THEN << >> ELSE <<cm.message>>

\* a fan-out ends only when the loop has reached every listener of the copy
C6_LoopRunsToEnd ==
  /\ \A t \in Sending : pc'[t] = "idle" => todo[t] = {}
  /\ (cm.pc = "send" /\ cm'.pc = "idle") => cm.todo = {}

\* C6: when delivery to some listeners of a broadcast raises, every other
\* listener of the copied list still has send_json invoked exactly once with
\* the same snapshot; a failure never aborts the loop.  For
\* DataHandler._maybe_broadcast and ConnectionManager.broadcast / broadcast_json.
C6_FailureDoesNotAbortFanOut == [] C6_OncePerListener /\ [][C6_LoopRunsToEnd]_vars

\* a listener of this broadcast raised and the loop went on to the next one
C6_Witness ==
  \/ \E t \in Sending : \E w \in fanout[t] :
       /\ w # ws[t] /\ w \in failed /\ w \notin listeners
       /\ sent[t][w] = <<snapshot_copy[t]>> /\ sent[t][ws[t]] = <<snapshot_copy[t]>>
       /\ todo[t] = {}
  \/ /\ cm.pc = "send" /\ cm.todo = {}
     /\ \E w \in cm.fan : w # cm.cur /\ w \notin active_connections
                           /\ cm.sent[w] = <<cm.message>>

\* ---- C7 ---------------------------------------------------------------------

\* C7: within one broadcast, a listener whose send_json never completes does
\* not keep the other listeners of that broadcast from being sent the snapshot.
C7_HungListenerDoesNotBlockOthers ==
  \A t \in Tasks, w \in Listeners :
    (pc[t] = "send" /\ ws[t] \in hung /\ w \in todo[t]) ~> (w \notin todo[t])

\* ---- C8 ---------------------------------------------------------------------

\* C8: a listener whose send_json never completes does not stall ingestion:
\* the ingestion path that is inside process_parsed_message gets back to
\* where it takes the next event.
C8_HungListenerDoesNotStallIngestion ==
  \A t \in Tasks : (pc[t] = "send" /\ ws[t] \in hung) ~> (pc[t] = "idle")

\* ---- C9 ---------------------------------------------------------------------

C10_ReturnDoesNotWait ==
  returned' > returned => pub'.running = pub.running + 1

\* the end of a publish task, whatever its outcome, changes nothing of the
\* store, the listeners or the callers
C10_PublishEndIsLocal ==
  pub'.running < pub.running =>
    UNCHANGED <<snapshot, history, listeners, pc, returned, _last_emit, lock>>

\* C10: a downstream publish failure never reaches process_parsed_message,
\* leaves snapshot, history and listeners unchanged and never delays the next
\* apply: the call returns without waiting for the sink.
C10_PublishIsDecoupled == [][C10_ReturnDoesNotWait /\ C10_PublishEndIsLocal]_vars

\* an event was applied while an earlier publish was unanswered, and one
\* publish has ended
C10_Witness ==
  /\ returned = 2
  /\ pub.running = 1
  /\ pub.spawned = 2

\* ---- C11 --------------------------------------------------------------------

\* the handles whose most recent call was register, less those a failed send
\* has removed since
LastRegistered == registered \ failed

\* register and unregister have no failing path: they can always be called
C11_NeverFails ==
  /\ program = "data_handler" =>
       \A w \in Listeners : ENABLED RegisterListener(w) /\ ENABLED UnregisterListener(w)
  /\ program \in CMPrograms =>
       \A w \in Listeners : ENABLED CMConnect(w) /\ ENABLED CMDisconnect(w)

\* C11: after every sequence of register_listener / unregister_listener
\* calls (connect / disconnect of ConnectionManager) the active set is the
\* set of handles whose most recent call was register; a second register of
\* a present handle and an unregister of an absent handle change nothing,
\* and neither call fails.  The only other thing that changes the set is the
\* removal of a handle whose send raised.
C11_ActiveSetIsLastRegistered ==
  /\ program = "data_handler" => listeners = LastRegistered
  /\ program \in CMPrograms => active_connections = LastRegistered
  /\ C11_NeverFails

\* one handle is registered and the other, removed by a failed send, was
\* unregistered when it was already absent
C11_Witness ==
  /\ Cardinality(registered) = 1
  /\ failed # {}
  /\ failed \cap registered = {}
  /\ listeners \cup active_connections = registered

\* ---- C12 --------------------------------------------------------------------

\* C12: a registered listener that is neither unregistered nor removed by a
\* failed send has send_json invoked by every broadcast that fired after its
\* registration: from the moment it is in the copied list of a broadcast and
\* the loop has not reached it, the loop reaches it.
C12_RegisteredListenerIsSent ==
  \A t \in Tasks, w \in Listeners :
    (w \in listeners /\ w \in fanout[t] /\ sent[t][w] = << >>)
      ~> (sent[t][w] # << >> \/ w \notin listeners)

\* ---- C13 --------------------------------------------------------------------

\* C13: for every history content and every limit >= 0, limit = 0 and
\* limit > len(history) included, get_history(limit) returns exactly the
\* most recent min(limit, len(history)) events, oldest of them first.
C13_HistoryReadIsLastLimit ==
  reply.listed => reply.events = LastN(history, reply.limit)

\* ---- C14 --------------------------------------------------------------------

\* the event process_parsed_message is called with in this step has no "type"
MalformedArrives == log' # log /\ log'[Len(log')].type = NoType

\* C14: an event without a "type" field that is passed to
\* process_parsed_message does not enter the store: neither the snapshot
\* nor the history changes.
C14_MalformedEventIsRejected ==
  [][MalformedArrives => (snapshot' = snapshot /\ history' = history)]_vars

\* ---- C15 --------------------------------------------------------------------

\* C15: the "ts" of a snapshot copy is the time of the most recent apply: the
\* copy get_snapshot returns carries the time at which the last event was
\* applied, so that two reads with no event between them carry the same.
C15_CopyTimestampIsLastApply ==
  (reply.set /\ log # << >>) => reply.copy.ts = log[Len(log)].ts

\* ---- C16 --------------------------------------------------------------------

\* C16: a DataHandler constructed with no arguments has a history capacity
\* of 2000 entries and a minimum broadcast interval of 0.5 s (half of the
\* ticks of a second).
C16_DefaultConfiguration ==
  program = "data_handler" => (maxlen = 2000 /\ 2 * emit_interval = TicksPerSecond)

\* ---- C17 --------------------------------------------------------------------

\* C17: in every state in which a send_json is in progress the lock is not
\* held by the broadcasting task (the copies were taken under the lock and
\* the lock was released before the first send), so that register_listener,
\* unregister_listener, get_snapshot and the apply of another caller, which
\* all need the lock, are not blocked by a delivery in flight.
C17_LockFreeDuringSend ==
  Sending # {} =>
    /\ lock \notin Sending
    /\ lock = NoTask
    /\ \A w \in Listeners : ENABLED RegisterListener(w) /\ ENABLED UnregisterListener(w)
    /\ ENABLED GetSnapshot

\* get_snapshot returned during a delivery, after the registry was changed
\* and a second event was applied during it
C17_Witness ==
  \E t \in Sending :
    /\ reply.set
    /\ failed = {}
    /\ registered # fanout[t]
    /\ snapshot # snapshot_copy[t].snap

\* ---- C18 --------------------------------------------------------------------

\* the caller whose broadcast fires in this step and starts to deliver
Firing(t) == fires' # fires /\ pc[t] = "idle" /\ pc'[t] = "send"

\* the copy a firing broadcast takes holds, for every category, the fields
\* of the latest event applied before it fired
C18_CopyAtFireIsLatest ==
  \A t \in Tasks : Firing(t) =>
    \A c \in Categories : snapshot_copy'[t].snap[c] = LatestFields(log', c)

\* every send_json of a broadcast is passed that copy: the copy a delivering
\* task holds does not change, and it is what each invoked send is given
C18_SendsTheCopy ==
  \A t \in Tasks :
    /\ (pc[t] = "send" /\ pc'[t] = "send") => snapshot_copy'[t] = snapshot_copy[t]
    /\ \A w \in Listeners : Invoked(t, w) =>
         sent'[t][w][Len(sent'[t][w])] = snapshot_copy'[t]

\* C18: the snapshot a fired broadcast delivers contains, for every category,
\* the fields of the latest event whose apply completed before the broadcast
\* fired: the events applied while the throttle suppressed broadcasting are
\* in it, and no earlier value of a category is sent.
C18_DeliversLatestAtFire == [][C18_CopyAtFireIsLatest /\ C18_SendsTheCopy]_vars

\* the second broadcast delivers the fields of the event it fired for
\* together with those of the event that was applied in the throttle window
\* before it
C18_Witness ==
  \E t \in Sending :
    /\ Len(fires) = 2
    /\ Len(log) = 3
    /\ log[2].type # NoType /\ log[3].type # NoType /\ log[2].type # log[3].type
    /\ snapshot_copy[t].snap[log[2].type] = 2
    /\ snapshot_copy[t].snap[log[3].type] = 3
    /\ sent[t][ws[t]] = <<snapshot_copy[t]>>

\* ---- C19 --------------------------------------------------------------------

\* process_parsed_message is called in this step, and its _maybe_broadcast
\* comes less than emit_interval after the last broadcast that fired
CallInsideWindow == log' # log /\ clock - _last_emit < emit_interval

\* C19: a call of _maybe_broadcast made less than emit_interval after the
\* last fired broadcast has no side effects: _last_emit and the listeners are
\* unchanged, the snapshot and the history are as the apply of the same call
\* left them, no broadcast fires, no send_json is invoked on any listener and
\* no caller is suspended in one.
C19_ThrottledCallHasNoEffect ==
  [][CallInsideWindow =>
       /\ _last_emit' = _last_emit
       /\ listeners' = listeners
       /\ \A c \in Categories : snapshot'[c] = LatestFields(log', c)
       /\ history' = LastN(log', maxlen)
       /\ fires' = fires
       /\ sent' = sent /\ pc' = pc /\ snapshot_copy' = snapshot_copy
       /\ \A t \in Tasks, w \in Listeners : ~Invoked(t, w)]_vars

\* the second call came inside the window of the first broadcast, which is
\* still delivering to the listeners it copied
C19_Witness ==
  /\ Len(log) = 2
  /\ Len(fires) = 1
  /\ log[2].ts - fires[1] < emit_interval
  /\ _last_emit = fires[1]
  /\ returned = 1
  /\ \E t \in Sending : todo[t] # {}

\* ---- C20 --------------------------------------------------------------------

\* what a copy shows: for every category, the contents of the mapping it
\* refers to
Shown(f, copy) ==
  [c \in Categories |-> IF copy.snap[c] = Absent THEN Absent ELSE f[copy.snap[c]]]

\* C20: a copy taken by get_snapshot or by a broadcast is independent of the
\* store: no later process_parsed_message changes a category or a field
\* value of a copy taken before, although the copy shares the per-category
\* field mappings with the store.
C20_CopiesAreIndependent ==
  [][log' # log =>
       /\ \A t \in Sending : /\ snapshot_copy'[t] = snapshot_copy[t]
                             /\ Shown(fields', snapshot_copy[t]) = Shown(fields, snapshot_copy[t])
                             /\ Shown(fields', snapshot_copy[t]) = snapshot_copy[t].snap
       /\ reply.set => /\ Shown(fields', reply.copy) = Shown(fields, reply.copy)
                       /\ Shown(fields', reply.copy) = reply.copy.snap]_vars

\* a broadcast is delivering a copy that holds the mapping of a category the
\* store has replaced since
C20_Witness ==
  \E t \in Sending : \E c \in Categories :
    /\ snapshot_copy[t].snap[c] # Absent
    /\ snapshot[c] # snapshot_copy[t].snap[c]
    /\ fields[snapshot_copy[t].snap[c]] = snapshot_copy[t].snap[c]
    /\ fields[snapshot[c]] = snapshot[c]

\* ---- C21 --------------------------------------------------------------------

\* the store as it is after the first n applied events
StoreAfter(n) == [c \in Categories |-> LatestFields(SubSeq(log', 1, n), c)]

\* C21: the payload _maybe_publish_cloud builds, reading self.snapshot
\* without the lock, reflects one point in time: under every interleaving
\* with other process_parsed_message tasks all its parts come from one state
\* of the store, the one at which the payload is built, with no apply
\* between the reads of the parts.
C21_PayloadIsOneStoreState ==
  [][pub'.spawned > pub.spawned =>
       /\ \E n \in 0 .. Len(log') : cloud_payload' = StoreAfter(n)
       /\ cloud_payload' = StoreAfter(Len(log'))
       /\ cloud_payload' = snapshot']_vars

\* the first caller built its payload after its deliveries, during which
\* the second caller applied an event of the same category and started to
\* deliver
C21_Witness ==
  /\ pc[1] = "idle" /\ pc[2] = "send"
  /\ returned = 1
  /\ Len(log) = 2
  /\ log[1].type = "position" /\ log[2].type = "position"
  /\ cloud_payload["position"] = 2
  /\ snapshot_copy[2].snap["position"] = 2

\* ---- C22 --------------------------------------------------------------------

\* a broadcast that is still delivering has already sent w a snapshot taken
\* later than `copy` (fire times differ, so "ts" orders the broadcasts)
NewerAlreadySent(w, copy) ==
  \E u \in Sending : sent[u][w] # << >> /\ snapshot_copy[u].ts > copy.ts

\* C22: every listener is sent the snapshots in the order in which the
\* broadcasts fired: when the deliveries of concurrent callers overlap, no
\* listener has send_json invoked with an older snapshot after it was
\* invoked with a newer one.
C22_DeliveryInFireOrder ==
  [][\A t \in Tasks, w \in Listeners :
       Invoked(t, w) => ~NewerAlreadySent(w, sent'[t][w][Len(sent'[t][w])])]_vars

====
